---- MODULE Spec2Model ----
(***************************************************************************)
(* Model of mini_weather_app/dashboard.py: the SMHI fetcher (validation,   *)
(* GET with urllib3 Retry, status / content-type / JSON checks), the       *)
(* st.cache_data wrapper around it, the normalizer smhi_to_df, the         *)
(* current-row picker, the forward window, and the module-level script     *)
(* that Streamlit re-runs on every interaction.                            *)
(*                                                                         *)
(* Times are instants in seconds.  Coordinates are integers in units of    *)
(* 1e-7 degree, so that the "%.6f" formatting of the URL is a real         *)
(* rounding.  JSON numbers are tagged values (Num / NaN / None).           *)
(***************************************************************************)
EXTENDS Integers, Naturals, Sequences, FiniteSets, TLC

VARIABLES
    pc,           \* position of the script / harness
    lat, lon,     \* coordinates of the current run
    hours_ahead,  \* slider value of the current run
    refresh,      \* whether the refresh button triggered the current run
    cache,        \* st.cache_data store of fetch_smhi: key -> entry
    clock,        \* wall clock, seconds
    url,          \* URL built by fetch_smhi in the current call (NoUrl before)
    retry_total,  \* Retry.total left for the GET in flight
    attempts,     \* GETs put on the wire by the current fetch_smhi call
    seen,         \* what the upstream answered to each of them, in order
    r,            \* final response of the current call
    result,       \* what fetch_smhi returned or raised in the current run
    payload,      \* payload handed to smhi_to_df
    df,           \* result of smhi_to_df
    now_local,    \* datetime.now(STHLM_TZ) taken by the script
    df_window,    \* rows of the forward window
    cur,          \* result of pick_current_row
    shown         \* what the page shows: message and diagnostic panel

vars == <<pc, lat, lon, hours_ahead, refresh, cache, clock, url, retry_total,
          attempts, seen, r, result, payload, df, now_local, df_window, cur, shown>>

---------------------------------------------------------------------------
(* Values *)

Num(n) == [k |-> "num", v |-> n]
NaN == [k |-> "nan", v |-> 0]
None == [k |-> "none", v |-> 0]

\* pandas isna(): NaN and None are both missing
IsNa(x) == x.k \in {"nan", "none"}

Abs(x) == IF x < 0 THEN -x ELSE x

\* pd.Timedelta(hours=1), in seconds
Hour == 3600

---------------------------------------------------------------------------
(* _safe_get_param *)

\* index of the first parameter called name, 0 when none
FirstNamed(param_list, name) ==
    IF \E i \in 1..Len(param_list) : param_list[i].name = name
    THEN CHOOSE i \in 1..Len(param_list) :
            /\ param_list[i].name = name
            /\ \A j \in 1..(i - 1) : param_list[j].name # name
    ELSE 0

\* p.get("values") or []
ValuesOrEmpty(p) == IF p.values.k = "list" THEN p.values.items ELSE <<>>

safe_get_param(param_list, name, default) ==
    LET i == FirstNamed(param_list, name) IN
    IF i = 0 THEN default
    ELSE LET vals == ValuesOrEmpty(param_list[i]) IN
         IF vals # <<>> THEN vals[1] ELSE default

---------------------------------------------------------------------------
(* _utc_to_local *)

\* A timestamp string: "aware" (explicit offset), "naive" (no offset),
\* "bad" (isoparse raises ValueError).  wall is the clock reading written in
\* the string, off its offset from UTC.
Aware(wall, off) == [k |-> "aware", wall |-> wall, off |-> off]
Naive(wall) == [k |-> "naive", wall |-> wall, off |-> 0]
BadTs == [k |-> "bad", wall |-> 0, off |-> 0]
MissingTs == [k |-> "missing", wall |-> 0, off |-> 0]

\* the instant of the parsed timestamp; astimezone keeps the instant
utc_to_local(ts) == IF ts.k = "naive" THEN ts.wall ELSE ts.wall - ts.off

---------------------------------------------------------------------------
(* smhi_to_df *)

Df(rows) == [kind |-> "df", exc |-> "", rows |-> rows]
Raise(exc) == [kind |-> "raise", exc |-> exc, rows |-> <<>>]
NoDf == [kind |-> "none", exc |-> "", rows |-> <<>>]

\* payload.get("timeSeries", []) or []
TimeSeriesOrEmpty(p) == IF p.timeSeries.k = "list" THEN p.timeSeries.items ELSE <<>>

\* item["validTime"] raises KeyError when the key is missing,
\* isoparse raises ValueError on a malformed string
ItemFails(item) == item.validTime.k \in {"missing", "bad"}

ItemExc(item) == IF item.validTime.k = "missing" THEN "KeyError" ELSE "ValueError"

RowOf(item) ==
    LET params == item.parameters IN
    [time        |-> utc_to_local(item.validTime),
     temp_C      |-> safe_get_param(params, "t", NaN),
     wind_ms     |-> safe_get_param(params, "ws", NaN),
     gust_ms     |-> safe_get_param(params, "gust", NaN),
     precip_mm_h |-> safe_get_param(params, "pmean", Num(0)),
     cloud_okta  |-> safe_get_param(params, "tcc_mean", NaN),
     msl_hPa     |-> safe_get_param(params, "msl", NaN),
     rh_pct      |-> safe_get_param(params, "r", NaN),
     wind_deg    |-> safe_get_param(params, "wd", NaN)]

IsSorted(rows) ==
    \A i \in 1..(Len(rows) - 1) : rows[i].time <= rows[i + 1].time

Injective(p) == \A i, j \in DOMAIN p : p[i] = p[j] => i = j

\* variant without the sort: the rows in input order
sort_values_unsorted(rows) == {rows}

\* sort_values("time"): default kind is quicksort, which is not stable, so
\* every ascending arrangement of the rows is a possible outcome
sort_values(rows) ==
    LET n == Len(rows)
    IN { [i \in 1..n |-> rows[p[i]]] :
           p \in { q \in [1..n -> 1..n] :
                     /\ Injective(q)
                     /\ \A i \in 1..(n - 1) : rows[q[i]].time <= rows[q[i + 1]].time } }

\* variant without fillna: the cell as it is
fillna_keep(x) == x

\* fillna(0.0) on one cell
fillna(x) == IF IsNa(x) THEN Num(0) ELSE x

FillPrecip(rows) ==
    [i \in 1..Len(rows) |-> [rows[i] EXCEPT !.precip_mm_h = fillna(@)]]

\* The set of possible results of smhi_to_df(payload).
smhi_to_df(p) ==
    IF ~p.isdict THEN {Raise("AttributeError")}
    ELSE LET ts == TimeSeriesOrEmpty(p) IN
         IF \E i \in 1..Len(ts) : ItemFails(ts[i])
         THEN {Raise(ItemExc(ts[CHOOSE i \in 1..Len(ts) :
                                    /\ ItemFails(ts[i])
                                    /\ \A j \in 1..(i - 1) : ~ItemFails(ts[j])]))}
         ELSE LET rows == [i \in 1..Len(ts) |-> RowOf(ts[i])] IN
              \* pd.DataFrame([]) has no "time" column: sort_values raises
              IF rows = <<>> THEN {Raise("KeyError")}
              ELSE {Df(FillPrecip(s)) : s \in sort_values(rows)}

---------------------------------------------------------------------------
(* pick_current_row and the forward window *)

Row(idx, row) == [kind |-> "row", idx |-> idx, time |-> row.time, exc |-> ""]
NoRow == [kind |-> "none", idx |-> 0, time |-> 0, exc |-> ""]
RowRaise(exc) == [kind |-> "raise", idx |-> 0, time |-> 0, exc |-> exc]

IsNearest(rows, now, i) ==
    \A j \in 1..Len(rows) : Abs(rows[i].time - now) <= Abs(rows[j].time - now)

\* variant that takes the last of the nearest rows
pick_current_row_last(rows, now) ==
    IF rows = <<>> THEN RowRaise("ValueError")
    ELSE LET idx == CHOOSE i \in 1..Len(rows) :
                       /\ IsNearest(rows, now, i)
                       /\ \A j \in (i + 1)..Len(rows) : ~IsNearest(rows, now, j)
         IN Row(idx, rows[idx])

\* (df["time"] - now).abs().idxmin(): the first label of the minimum;
\* idxmin of an empty series raises ValueError
pick_current_row(rows, now) ==
    IF rows = <<>> THEN RowRaise("ValueError")
    ELSE LET idx == CHOOSE i \in 1..Len(rows) :
                       /\ IsNearest(rows, now, i)
                       /\ \A j \in 1..(i - 1) : ~IsNearest(rows, now, j)
         IN Row(idx, rows[idx])

\* variant with exclusive bounds
InWindowStrict(t, now, hours) == t > now /\ t < now + hours * Hour

\* (df["time"] >= now_local) & (df["time"] <= now_local + Timedelta(hours))
InWindow(t, now, hours) == t >= now /\ t <= now + hours * Hour

\* boolean-mask selection keeps the index labels and the table order
window(rows, now, hours) ==
    SelectSeq([i \in 1..Len(rows) |-> [idx |-> i, time |-> rows[i].time]],
              LAMBDA x : InWindow(x.time, now, hours))

---------------------------------------------------------------------------
(* fetch_smhi: validation and URL *)

\* one degree, in coordinate units
Degree == 10 ^ 7

LatMax == 90
LonMax == 180

\* variant that forgets the longitude
valid_coords_lat_only(la, lo) == -LatMax * Degree <= la /\ la <= LatMax * Degree

\* -90 <= lat <= 90 and -180 <= lon <= 180
valid_coords(la, lo) ==
    /\ -LatMax * Degree <= la /\ la <= LatMax * Degree
    /\ -LonMax * Degree <= lo /\ lo <= LonMax * Degree

\* f"{x:.6f}": the nearest multiple of 1e-6 degree (in units of 1e-6)
Fmt6(x) ==
    LET a == Abs(x)
        q == a \div 10
        m == IF a % 10 > 5 \/ (a % 10 = 5 /\ q % 2 = 1) THEN q + 1 ELSE q
    IN IF x < 0 THEN -m ELSE m

NoUrl == <<>>

\* SMHI_ENDPOINT.format(lat=..., lon=...): .../lon/{lon}/lat/{lat}/data.json
Url(la, lo) == <<Fmt6(lo), Fmt6(la)>>

---------------------------------------------------------------------------
(* _requests_session: urllib3 Retry policy of the mounted adapter *)

RetryTotal == 3

status_forcelist == {429, 500, 502, 503, 504}

\* urllib3 Retry.RETRY_AFTER_STATUS_CODES, honoured because
\* respect_retry_after_header is left at its default
RETRY_AFTER_STATUS_CODES == {413, 429, 503}

\* variant with 404 on the force list
is_retry_also_404(total, status, has_retry_after) ==
    \/ status \in status_forcelist \cup {404}
    \/ (total # 0 /\ has_retry_after /\ status \in RETRY_AFTER_STATUS_CODES)

\* Retry.is_retry for a GET (GET is in allowed_methods)
is_retry(total, status, has_retry_after) ==
    \/ status \in status_forcelist
    \/ (total # 0 /\ has_retry_after /\ status \in RETRY_AFTER_STATUS_CODES)

\* Retry.increment followed by is_exhausted
Exhausted(total) == total - 1 < 0

\* What one GET on the wire leads to: "retry" (urlopen sleeps and sends
\* again), "final" (the response is handed back; raise_on_status=False hands
\* back the last response when the retries are used up) or "raise"
\* (MaxRetryError, surfaced by requests as ConnectionError).
AfterAttempt(total, resp) ==
    IF resp.kind = "neterr"
    THEN IF Exhausted(total) THEN "raise" ELSE "retry"
    ELSE IF is_retry(total, resp.status, resp.retry_after)
         THEN IF Exhausted(total) THEN "final" ELSE "retry"
         ELSE "final"

---------------------------------------------------------------------------
(* fetch_smhi: checks on the final response *)

\* JSON documents
TsAbsent == [k |-> "absent", items |-> <<>>]
TsNull == [k |-> "null", items |-> <<>>]
TsList(items) == [k |-> "list", items |-> items]
Payload(ts) == [isdict |-> TRUE, timeSeries |-> ts]
JsonArray == [isdict |-> FALSE, timeSeries |-> TsAbsent]
NoPayload == JsonArray

Returned(p, src) == [kind |-> "payload", exc |-> "", payload |-> p, src |-> src]
Raised(exc) == [kind |-> "raise", exc |-> exc, payload |-> NoPayload, src |-> NoUrl]
NoResult == [kind |-> "none", exc |-> "", payload |-> NoPayload, src |-> NoUrl]

\* Response.raise_for_status raises for 4xx and 5xx
raise_for_status(status) == 400 <= status /\ status < 600

\* "application/json" in ct, the header value being a sequence of tokens
HasJsonType(ct) == \E i \in 1..Len(ct) : ct[i] = "application/json"

\* lines 77-95: status, then content type, then JSON decoding
classify(resp, src) ==
    IF raise_for_status(resp.status) THEN Raised("HttpError")
    ELSE IF ~HasJsonType(resp.ctype) THEN Raised("ContentTypeError")
    ELSE IF ~resp.body.parses THEN Raised("DecodeError")
    ELSE Returned(resp.body.value, src)

Resp(status, ra, ct, body) ==
    [kind |-> "resp", status |-> status, retry_after |-> ra, ctype |-> ct, body |-> body]
NoBody == [parses |-> FALSE, value |-> NoPayload]
NetErr == [kind |-> "neterr", status |-> 0, retry_after |-> FALSE, ctype |-> <<>>, body |-> NoBody]
NoResp == [kind |-> "none", status |-> 0, retry_after |-> FALSE, ctype |-> <<>>, body |-> NoBody]

---------------------------------------------------------------------------
(* st.cache_data(ttl=600) around fetch_smhi *)

TTL == 600

NoEntry == [set |-> FALSE, key |-> <<>>, value |-> NoPayload, src |-> NoUrl, stored |-> 0]
Entry(key, p, src, t) == [set |-> TRUE, key |-> key, value |-> p, src |-> src, stored |-> t]

\* the cache key is made of the call's arguments
cache_key(la, lo) == <<la, lo>>

\* variant without a time to live
expired_never(e, now) == FALSE

\* an entry lives for ttl seconds
expired(e, now) == now - e.stored >= TTL

\* the store holds at most one entry per key
Lookup(c, key) ==
    IF \E e \in c : e.key = key THEN CHOOSE e \in c : e.key = key ELSE NoEntry

cache_hit(c, key, now) == Lookup(c, key).set /\ ~expired(Lookup(c, key), now)

\* fetch_smhi.clear() drops every entry of the function
cache_clear(c) == {}

\* storing replaces the key's entry and purges what has expired
cache_store(c, e, now) ==
    {x \in c : x.key # e.key /\ ~expired(x, now)} \cup {e}

---------------------------------------------------------------------------
(* The script: one run per interaction *)

Quiet == {"idle", "error", "nodata", "rendered", "crashed"}

Shown(msg, u) == [msg |-> msg, debug |-> u]

\* lines 158-163: the except branch of the fetch
Failed(la, lo) ==
    /\ pc' = "error"
    /\ shown' = Shown("error", Url(la, lo))
    /\ payload' = NoPayload /\ df' = NoDf /\ now_local' = 0
    /\ df_window' = <<>> /\ cur' = NoRow

\* lines 165-180: everything after a payload was obtained
RestOfRun(p) ==
    \E d \in smhi_to_df(p) :
        /\ payload' = p
        /\ df' = d
        /\ IF d.kind = "raise"
           THEN /\ pc' = "crashed"
                /\ shown' = Shown("traceback", NoUrl)
                /\ now_local' = 0 /\ df_window' = <<>> /\ cur' = NoRow
           ELSE IF d.rows = <<>>
           THEN /\ pc' = "nodata"
                /\ shown' = Shown("warning", NoUrl)
                /\ now_local' = 0 /\ df_window' = <<>> /\ cur' = NoRow
           ELSE /\ now_local' = clock
                /\ df_window' = window(d.rows, clock, hours_ahead')
                /\ cur' = pick_current_row(d.rows, clock)
                /\ IF pick_current_row(d.rows, clock).kind = "raise"
                   THEN pc' = "crashed" /\ shown' = Shown("traceback", NoUrl)
                   ELSE pc' = "rendered" /\ shown' = Shown("page", NoUrl)

Summary(resp) == [kind |-> resp.kind, status |-> resp.status, retry_after |-> resp.retry_after]

\* lines 136-157 and, on a cache hit or a validation failure, the rest of
\* the run; on a miss with valid coordinates the first GET goes out
StartRun(c, h, rf) ==
    /\ pc \in Quiet
    /\ lat' = c[1] /\ lon' = c[2] /\ hours_ahead' = h /\ refresh' = rf
    /\ clock' = clock
    /\ r' = NoResp /\ seen' = <<>>
    /\ LET c0 == IF rf THEN cache_clear(cache) ELSE cache
           key == cache_key(c[1], c[2])
       IN /\ cache' = c0
          /\ IF cache_hit(c0, key, clock)
             THEN /\ url' = NoUrl /\ attempts' = 0 /\ retry_total' = 0
                  /\ result' = Returned(Lookup(c0, key).value, Lookup(c0, key).src)
                  /\ RestOfRun(Lookup(c0, key).value)
             ELSE IF ~valid_coords(c[1], c[2])
             THEN /\ url' = NoUrl /\ attempts' = 0 /\ retry_total' = 0
                  /\ result' = Raised("InvalidCoordinate")
                  /\ Failed(c[1], c[2])
             ELSE /\ url' = Url(c[1], c[2])
                  /\ attempts' = 1 /\ retry_total' = RetryTotal
                  /\ result' = NoResult
                  /\ pc' = "fetching"
                  /\ shown' = Shown("none", NoUrl)
                  /\ payload' = NoPayload /\ df' = NoDf /\ now_local' = 0
                  /\ df_window' = <<>> /\ cur' = NoRow

\* The upstream answers the GET in flight (or the transport fails): the
\* adapter sends again, or s.get returns / raises and the run goes on to
\* its end.
Respond(resp) ==
    /\ pc = "fetching"
    /\ seen' = Append(seen, Summary(resp))
    /\ UNCHANGED <<lat, lon, hours_ahead, refresh, clock, url>>
    /\ LET a == AfterAttempt(retry_total, resp) IN
       IF a = "retry"
       THEN /\ retry_total' = retry_total - 1
            /\ attempts' = attempts + 1
            /\ UNCHANGED <<pc, cache, r, result, payload, df, now_local,
                           df_window, cur, shown>>
       ELSE /\ UNCHANGED <<retry_total, attempts>>
            /\ r' = resp
            /\ IF a = "raise"
               THEN /\ result' = Raised("ConnectionError")
                    /\ UNCHANGED cache
                    /\ Failed(lat, lon)
               ELSE LET res == classify(resp, url) IN
                    /\ result' = res
                    /\ IF res.kind = "payload"
                       THEN /\ cache' = cache_store(cache,
                                  Entry(cache_key(lat, lon), res.payload, url, clock), clock)
                            /\ RestOfRun(res.payload)
                       ELSE /\ UNCHANGED cache
                            /\ Failed(lat, lon)

\* time passes
Tick(step, max) ==
    /\ clock + step <= max
    /\ clock' = clock + step
    /\ UNCHANGED <<pc, lat, lon, hours_ahead, refresh, cache, url, retry_total,
                   attempts, seen, r, result, payload, df, now_local,
                   df_window, cur, shown>>

ScriptInit ==
    /\ pc = "idle"
    /\ lat = 0 /\ lon = 0 /\ hours_ahead = 0 /\ refresh = FALSE
    /\ cache = {} /\ clock = 0
    /\ url = NoUrl /\ retry_total = 0 /\ attempts = 0 /\ seen = <<>>
    /\ r = NoResp /\ result = NoResult
    /\ payload = NoPayload /\ df = NoDf /\ now_local = 0
    /\ df_window = <<>> /\ cur = NoRow
    /\ shown = Shown("none", NoUrl)

---------------------------------------------------------------------------
(* Inputs *)

MaxRows == 3
MaxTableRows == 4
MaxHalfHours == 4
MaxHours == 1
MaxClock == 900
TickStep == 300

Item(vt, params) == [validTime |-> vt, parameters |-> params]
Param(name, values) == [name |-> name, values |-> values]
ValAbsent == [k |-> "absent", items |-> <<>>]
ValList(xs) == [k |-> "list", items |-> xs]

SeqsUpTo(S, n) == UNION {[1..m -> S] : m \in 0..n}

\* parameter lists: around pmean
ParamLists ==
    { <<>>,
      <<Param("t", ValList(<<Num(5)>>))>>,
      <<Param("t", ValList(<<Num(5)>>)), Param("pmean", ValList(<<Num(3)>>))>>,
      <<Param("pmean", ValList(<<>>))>>,
      <<Param("pmean", ValAbsent)>>,
      <<Param("pmean", ValList(<<None>>))>>,
      <<Param("pmean", ValList(<<NaN>>))>>,
      <<Param("pmean", ValList(<<Num(2), Num(7)>>))>>,
      <<Param("pmean", ValList(<<>>)), Param("pmean", ValList(<<Num(4)>>))>> }

SomeParams == <<Param("t", ValList(<<Num(5)>>)), Param("pmean", ValList(<<Num(3)>>))>>

\* validTime strings: naive, with an offset, malformed, missing
NormTimes ==
    { Naive(0), Naive(Hour), Aware(2 * Hour, Hour), Aware(2 * Hour, 0), BadTs, MissingTs }

NormItems ==
    {Item(t, SomeParams) : t \in NormTimes} \cup {Item(Naive(0), pl) : pl \in ParamLists}

NormPayloads ==
    {Payload(TsList(items)) : items \in SeqsUpTo(NormItems, MaxRows)}
        \cup {Payload(TsAbsent), Payload(TsNull), JsonArray}

SelTimes == {k * (Hour \div 2) : k \in 0..MaxHalfHours}

SelTables ==
    SeqsUpTo({RowOf(Item(Aware(t, 0), <<>>)) : t \in SelTimes}, MaxTableRows)

\* coordinates, in 1e-7 degree: presets, custom positions, out of range
Stockholm == <<593293000, 180686000>>
NearStockholm == <<593293004, 180686000>>
StockholmLat == <<593293000, 119746000>>
Corner == <<LatMax * Degree, -LonMax * Degree>>
OutOfRange ==
    { <<LatMax * Degree + 1, 0>>, <<-LatMax * Degree - 1, 0>>,
      <<0, LonMax * Degree + 1>>, <<0, -LonMax * Degree - 1>> }

Unparsable == [parses |-> FALSE, value |-> NoPayload]
Parsed(p) == [parses |-> TRUE, value |-> p]

\* a forecast with one step in the past, one now, one twelve hours ahead
BadItemPayload == Payload(TsList(<<Item(BadTs, SomeParams)>>))
GoodPayload ==
    Payload(TsList(<< Item(Aware(12 * Hour, 0), SomeParams),
                      Item(Naive(-Hour), <<>>),
                      Item(Naive(0), SomeParams) >>))
EmptySeries == Payload(TsList(<<>>))

JsonType == <<"application/json", "; charset=utf-8">>
HtmlType == <<"text/html">>
NoType == <<>>

Responses(statuses, ras, ctypes, bodies) ==
    {Resp(st, ra, ct, b) : st \in statuses, ra \in ras, ct \in ctypes, b \in bodies}

\* Spec: few responses, two cache keys, the clock
RunCoords == {Stockholm, StockholmLat, <<LatMax * Degree + 1, 0>>}
RunHours == {12, 48}
RunResponses ==
    Responses({200, 503}, {FALSE}, {JsonType, HtmlType},
              {Unparsable, Parsed(GoodPayload), Parsed(EmptySeries), Parsed(BadItemPayload)})
      \cup {NetErr}

\* SpecFetch: every run refreshes, so every run calls the body of fetch_smhi.
\* The upstream answers with any of these, in any order; redirects that
\* requests would follow (301, 302, 303, 307, 308 with Location) are left out.
FetchCoords == {NearStockholm, Corner} \cup OutOfRange
FetchResponses ==
    Responses({200, 304, 404, 413} \cup status_forcelist, {FALSE},
              {JsonType, HtmlType, NoType}, {Unparsable, Parsed(GoodPayload)})
      \cup Responses({413, 503}, {TRUE}, {JsonType}, {Unparsable})
      \cup {NetErr}

---------------------------------------------------------------------------
(* Specifications *)

RunStep == \E c \in RunCoords, h \in RunHours, rf \in BOOLEAN : StartRun(c, h, rf)
RunAnswer == \E resp \in RunResponses : Respond(resp)
RunTick == Tick(TickStep, MaxClock)

Init == ScriptInit
Next == RunStep \/ RunAnswer \/ RunTick
Spec == Init /\ [][Next]_vars

FetchStep == \E c \in FetchCoords : StartRun(c, 48, TRUE)
FetchAnswer == \E resp \in FetchResponses : Respond(resp)

NextFetch == FetchStep \/ FetchAnswer
SpecFetch == Init /\ [][NextFetch]_vars

\* smhi_to_df applied to a payload
NormInit ==
    /\ pc = "normalize"
    /\ payload \in NormPayloads
    /\ lat = 0 /\ lon = 0 /\ hours_ahead = 0 /\ refresh = FALSE
    /\ cache = {} /\ clock = 0
    /\ url = NoUrl /\ retry_total = 0 /\ attempts = 0 /\ seen = <<>>
    /\ r = NoResp /\ result = NoResult
    /\ df = NoDf /\ now_local = 0 /\ df_window = <<>> /\ cur = NoRow
    /\ shown = Shown("none", NoUrl)

Normalize ==
    /\ pc = "normalize"
    /\ df' \in smhi_to_df(payload)
    /\ pc' = "normalized"
    /\ UNCHANGED <<lat, lon, hours_ahead, refresh, cache, clock, url, retry_total,
                   attempts, seen, r, result, payload, now_local, df_window,
                   cur, shown>>

NextNormalize == Normalize
SpecNormalize == NormInit /\ [][NextNormalize]_vars

\* the window and pick_current_row applied to a table
SelInit ==
    /\ pc = "select"
    /\ df \in {Df(rows) : rows \in SelTables}
    /\ now_local \in SelTimes
    /\ hours_ahead \in 0..MaxHours
    /\ lat = 0 /\ lon = 0 /\ refresh = FALSE
    /\ cache = {} /\ clock = 0
    /\ url = NoUrl /\ retry_total = 0 /\ attempts = 0 /\ seen = <<>>
    /\ r = NoResp /\ result = NoResult
    /\ payload = NoPayload /\ df_window = <<>> /\ cur = NoRow
    /\ shown = Shown("none", NoUrl)

TakeWindow ==
    /\ pc = "select"
    /\ df_window' = window(df.rows, now_local, hours_ahead)
    /\ pc' = "windowed"
    /\ UNCHANGED <<lat, lon, hours_ahead, refresh, cache, clock, url, retry_total,
                   attempts, seen, r, result, payload, df, now_local, cur, shown>>

PickCurrent ==
    /\ pc = "windowed"
    /\ cur' = pick_current_row(df.rows, now_local)
    /\ pc' = "picked"
    /\ UNCHANGED <<lat, lon, hours_ahead, refresh, cache, clock, url, retry_total,
                   attempts, seen, r, result, payload, df, now_local, df_window,
                   shown>>

NextSelect == TakeWindow \/ PickCurrent
SpecSelect == SelInit /\ [][NextSelect]_vars

---------------------------------------------------------------------------
(* Properties of the fetcher, under SpecFetch *)

StatusesSeen == [i \in 1..Len(seen) |-> seen[i].status]

CallEnded == pc \in Quiet /\ attempts > 0

ResendCause(x) ==
    \/ x.kind = "neterr"
    \/ x.kind = "resp" /\ x.status \in {429, 500, 502, 503, 504}
    \/ x.kind = "resp" /\ x.status = 413 /\ x.retry_after

C2_ClassificationBy2xx ==
    (CallEnded /\ r.kind = "resp") =>
        LET ok2xx == 200 <= r.status /\ r.status < 300
            json == HasJsonType(r.ctype)
        IN /\ ~ok2xx => result.exc = "HttpError"
           /\ (ok2xx /\ ~json) => result.exc = "ContentTypeError"
           /\ (ok2xx /\ json /\ ~r.body.parses) => result.exc = "DecodeError"
           /\ result.kind = "payload" => (ok2xx /\ json /\ r.body.parses)

InRange(la, lo) ==
    /\ -90 * Degree <= la /\ la <= 90 * Degree
    /\ -180 * Degree <= lo /\ lo <= 180 * Degree

\* C3: out-of-range coordinates fail with the invalid-coordinate error and
\* no GET goes out; in-range coordinates pass and the URL carries them,
\* formatted; no GET ever goes out for coordinates out of range.
C3_ValidationBeforeRequest ==
    pc # "idle" =>
        /\ ~InRange(lat, lon) =>
              /\ pc = "error" /\ result = Raised("InvalidCoordinate")
              /\ attempts = 0 /\ seen = <<>> /\ url = NoUrl
        /\ InRange(lat, lon) =>
              /\ result.exc # "InvalidCoordinate"
              /\ attempts >= 1 /\ url = <<Fmt6(lon), Fmt6(lat)>>
        /\ (attempts > 0 \/ url # NoUrl) => InRange(lat, lon)

\* a longitude just beyond 180 with a fine latitude was refused, nothing sent
C3_Witness ==
    /\ pc = "error" /\ result.exc = "InvalidCoordinate" /\ attempts = 0
    /\ lat = 0 /\ lon = 180 * Degree + 1

---------------------------------------------------------------------------
(* Properties of the normalizer, under SpecNormalize *)

EntriesIn == IF payload.timeSeries.k = "list" THEN payload.timeSeries.items ELSE <<>>

\* C4: a payload whose timeSeries is absent, null or an empty list gives an
\* empty table, not a failure.
C4_EmptySeriesGivesEmptyTable ==
    (pc = "normalized" /\ payload.isdict /\ EntriesIn = <<>>) => df = Df(<<>>)

\* C5: the returned table has one row per input entry and is ascending by
\* time.
C5_OneRowPerEntrySorted ==
    (pc = "normalized" /\ df.kind = "df") =>
        /\ Len(df.rows) = Len(EntriesIn)
        /\ \A i \in 1..(Len(df.rows) - 1) : df.rows[i].time <= df.rows[i + 1].time

\* three entries given out of order, two of them at the same instant
C5_Witness ==
    /\ pc = "normalized" /\ df.kind = "df" /\ Len(df.rows) = 3
    /\ utc_to_local(EntriesIn[1].validTime) > utc_to_local(EntriesIn[2].validTime)
    /\ df.rows[2].time = df.rows[3].time
    /\ df.rows[1].time < df.rows[2].time

\* the precipitation the entry stands for: 0 without pmean, with an empty
\* values list, or with a missing first value; else the first value
PrecipOf(item) ==
    LET ps == SelectSeq(item.parameters, LAMBDA q : q.name = "pmean") IN
    IF ps = <<>> THEN Num(0)
    ELSE IF ps[1].values.k # "list" \/ ps[1].values.items = <<>> THEN Num(0)
    ELSE IF ps[1].values.items[1].k # "num" THEN Num(0)
    ELSE ps[1].values.items[1]

\* C6: every row's precipitation is a number: the entry's first pmean value,
\* or 0.0 when there is none or it is missing.
C6_PrecipitationIsNumber ==
    (pc = "normalized" /\ df.kind = "df") =>
        /\ \A i \in 1..Len(df.rows) : df.rows[i].precip_mm_h.k = "num"
        /\ \E p \in [1..Len(df.rows) -> 1..Len(EntriesIn)] :
              /\ Injective(p)
              /\ \A i \in 1..Len(df.rows) :
                    /\ df.rows[i].time = utc_to_local(EntriesIn[p[i]].validTime)
                    /\ df.rows[i].precip_mm_h = PrecipOf(EntriesIn[p[i]])

\* a table from an entry whose pmean holds a null and one whose pmean holds 3
C6_Witness ==
    /\ pc = "normalized" /\ df.kind = "df" /\ Len(df.rows) = 2
    /\ EntriesIn[1].parameters = <<Param("pmean", ValList(<<None>>))>>
    /\ EntriesIn[2].parameters = SomeParams
    /\ utc_to_local(EntriesIn[2].validTime) > 0
    /\ df.rows[1].precip_mm_h = Num(0) /\ df.rows[2].precip_mm_h = Num(3)

---------------------------------------------------------------------------
(* Properties of the selector, under SpecSelect *)

Dist(i) == Abs(df.rows[i].time - now_local)

\* C7: on a non-empty table the picked row is nearest to now, and the first
\* of the nearest rows; on an empty table the pick fails.
C7_NearestFirst ==
    pc = "picked" =>
        IF df.rows = <<>> THEN cur.kind = "raise"
        ELSE /\ cur.kind = "row"
             /\ cur.idx \in 1..Len(df.rows)
             /\ cur.time = df.rows[cur.idx].time
             /\ \A j \in 1..Len(df.rows) : Dist(cur.idx) <= Dist(j)
             /\ \A j \in 1..(cur.idx - 1) : Dist(j) > Dist(cur.idx)

\* now lies exactly between the second and the third row, the first is
\* farther: the second is picked
C7_Witness ==
    /\ pc = "picked" /\ Len(df.rows) = 3 /\ cur.idx = 2
    /\ df.rows[2].time # df.rows[3].time
    /\ Dist(2) = Dist(3) /\ Dist(1) > Dist(2) /\ Dist(2) > 0

Windowed == pc \in {"windowed", "picked"}

\* C8: on a normalized table the window holds exactly the rows with
\* now <= time <= now + hours, in table order, and they are a contiguous run.
C8_WindowInclusive ==
    (Windowed /\ IsSorted(df.rows)) =>
        /\ \A i \in 1..Len(df.rows) :
              (now_local <= df.rows[i].time /\ df.rows[i].time <= now_local + hours_ahead * 3600)
                 <=> \E k \in 1..Len(df_window) : df_window[k].idx = i
        /\ \A k \in 1..Len(df_window) :
              /\ df_window[k].idx \in 1..Len(df.rows)
              /\ df_window[k].time = df.rows[df_window[k].idx].time
        /\ \A k \in 1..(Len(df_window) - 1) : df_window[k + 1].idx = df_window[k].idx + 1

\* rows before now, exactly at now, exactly at now + 1 h and after it
C8_Witness ==
    /\ Windowed /\ hours_ahead = 1 /\ Len(df.rows) = 4
    /\ df.rows[1].time < now_local
    /\ df.rows[2].time = now_local
    /\ df.rows[3].time = now_local + 3600
    /\ df.rows[4].time > now_local + 3600
    /\ Len(df_window) = 2 /\ df_window[1].idx = 2 /\ df_window[2].idx = 3

---------------------------------------------------------------------------
(* Properties of the script, under Spec *)

\* C9: a run ends in the error state (message and attempted URL shown), the
\* no-data state (empty table) or the rendered state; never in an unhandled
\* exception.
C9_ThreeEndStates ==
    /\ pc \in {"idle", "fetching", "error", "nodata", "rendered"}
    /\ pc = "error" => shown = Shown("error", <<Fmt6(lon), Fmt6(lat)>>)
    /\ (pc \in Quiet /\ result.kind = "payload" /\ result.payload.isdict
          /\ TimeSeriesOrEmpty(result.payload) = <<>>) => pc = "nodata"

FreshEntry(e, la, lo) == e.key = <<la, lo>> /\ clock - e.stored < 600

\* C10: a run that finds a result for its coordinates stored less than 600 s
\* ago, and was not triggered by the refresh button, gets that result and
\* sends nothing; a run with valid coordinates that finds none, or an older
\* one, or was triggered by refresh, sends a GET; a result handed to a run
\* always comes from a request for that run's coordinates.
C10_CacheReuse ==
    [][ /\ result'.kind = "payload" => result'.src = <<Fmt6(lon'), Fmt6(lat')>>
        /\ (pc \in Quiet /\ clock' = clock) =>
              /\ \A e \in cache :
                    (FreshEntry(e, lat', lon') /\ ~refresh') =>
                        /\ attempts' = 0 /\ pc' # "fetching" /\ cache' = cache
                        /\ result'.kind = "payload" /\ result'.payload = e.value
              /\ (InRange(lat', lon')
                    /\ (refresh' \/ ~\E e \in cache : FreshEntry(e, lat', lon')))
                    => pc' = "fetching" /\ attempts' = 1
      ]_vars

\* 300 s after a result was stored for the coordinates, a run without refresh
\* was served from the store while the store also held the other coordinates
C10_Witness ==
    /\ pc = "rendered" /\ attempts = 0 /\ ~refresh /\ result.kind = "payload"
    /\ clock = 300
    /\ \E e \in cache : e.key = <<lat, lon>> /\ e.stored = 0
    /\ \E e \in cache : e.key # <<lat, lon>>

====
